---- MODULE Spec2Model ----
(***************************************************************************)
(* Model of src/draw_buffer.rs: the offscreen DrawBuffer (a framebuffer    *)
(* with a color renderbuffer and optional depth and stencil renderbuffers) *)
(* on top of GL contexts.  Every operation of the file is an operator on a *)
(* "world" (the GL state of every context, the current context, the log of *)
(* backend calls); the actions apply them atomically, as the code is       *)
(* single-threaded and synchronous.                                        *)
(***************************************************************************)
EXTENDS Integers, Sequences, FiniteSets, TLC

\* ------------------------------------------------------------------ bounds
\* Number of calls of DrawBuffer::new in a behaviour of Spec, which draws
\* every input of the construction.
MaxCalls == 1
\* Number of calls of DrawBuffer::new in a behaviour of SpecPair, which
\* builds several instances on two contexts.
MaxBuffers == 2

\* ----------------------------------------------------------- input domains
Ctx == {"A", "B"}
NoCtx == "none"
\* An instance holds at most three renderbuffers, so three names per call of
\* new are enough for every object the constructions can generate.
MaxInstances == IF MaxCalls > MaxBuffers THEN MaxCalls ELSE MaxBuffers
Names == 1 .. (3 * MaxInstances)
Handles == {0} \cup Names
Sizes == {<<1, 2>>, <<2, 1>>}
AttrSet == [alpha : BOOLEAN, depth : BOOLEAN, stencil : BOOLEAN, antialias : BOOLEAN]
SampleCounts == {0, 4}
CapSet == [max_samples : SampleCounts]
\* What make_current returns: Ok, or one of the context's errors.
McErrors == {"mc_lost", "mc_busy"}
McResults == McErrors \cup {"ok"}
\* The points where the backend may fail during a construction: a Gen* call
\* that leaves the handle 0, a RenderbufferStorage that raises a GL error,
\* an IsFramebuffer that does not recognise the framebuffer.
FailPoints == {"gen_color", "gen_depth", "gen_stencil", "gen_fb", "storage", "is_fb"}
\* A construction meets no backend failure, or one.
FailSets == {{}} \cup {{f} : f \in FailPoints}

ErrAntialias == "The given GLContext doesn't support requested antialising"

\* -------------------------------------------------------------- GL backend
Points == {"COLOR_ATTACHMENT0", "DEPTH_ATTACHMENT", "STENCIL_ATTACHMENT"}
NoAtt == [p \in Points |-> 0]
NoStore == [format |-> "none", width |-> 0, height |-> 0]

\* The state of one GL context.
InitGL ==
  [rbs |-> {}, fbs |-> {}, boundFb |-> 0, boundRb |-> 0,
   att |-> [n \in Names |-> NoAtt], store |-> [n \in Names |-> NoStore],
   err |-> FALSE]

Call(op, names, arg, w, h) ==
  [op |-> op, names |-> names, arg |-> arg, w |-> w, h |-> h]

\* glGen*: an unused name (the lowest one), or 0 when the backend fails.
UnusedName(used) ==
  CHOOSE n \in Names : n \notin used /\ \A m \in Names : m \notin used => n <= m

GLGenRenderbuffer(g, ok) ==
  IF ok /\ g.rbs # Names
  THEN [g |-> [g EXCEPT !.rbs = @ \cup {UnusedName(g.rbs)}], ret |-> UnusedName(g.rbs)]
  ELSE [g |-> g, ret |-> 0]

GLBindRenderbuffer(g, n) ==
  IF n = 0 THEN [g EXCEPT !.boundRb = 0]
  ELSE [g EXCEPT !.rbs = @ \cup {n}, !.boundRb = n]

GLRenderbufferStorage(g, format, w, h, ok) ==
  IF g.boundRb = 0 THEN [g EXCEPT !.err = TRUE]
  ELSE IF ~ok THEN [g EXCEPT !.err = TRUE, !.store[g.boundRb] = NoStore]
  ELSE [g EXCEPT !.store[g.boundRb] = [format |-> format, width |-> w, height |-> h]]

GLGenFramebuffer(g, ok) ==
  IF ok /\ g.fbs # Names
  THEN [g |-> [g EXCEPT !.fbs = @ \cup {UnusedName(g.fbs)}], ret |-> UnusedName(g.fbs)]
  ELSE [g |-> g, ret |-> 0]

\* Binding a name that is no object yet creates the object.
GLBindFramebuffer(g, n) ==
  IF n = 0 THEN [g EXCEPT !.boundFb = 0]
  ELSE [g EXCEPT !.fbs = @ \cup {n}, !.boundFb = n]

GLIsFramebuffer(g, n) == n # 0 /\ n \in g.fbs

GLFramebufferRenderbuffer(g, point, n) ==
  IF g.boundFb = 0 \/ (n # 0 /\ n \notin g.rbs) THEN [g EXCEPT !.err = TRUE]
  ELSE [g EXCEPT !.att[g.boundFb][point] = n]

\* glDelete*: names that are 0 or no object are silently ignored.
GLDeleteFramebuffer(g, n) ==
  IF n = 0 \/ n \notin g.fbs THEN g
  ELSE [g EXCEPT !.fbs = @ \ {n}, !.att[n] = NoAtt,
                 !.boundFb = IF @ = n THEN 0 ELSE @]

\* A deleted renderbuffer is detached from the bound framebuffer.
GLDetach(g, n) ==
  IF g.boundFb = 0 THEN g
  ELSE [g EXCEPT !.att[g.boundFb] = [p \in Points |-> IF @[p] = n THEN 0 ELSE @[p]]]

GLDeleteRenderbuffer(g, n) ==
  IF n = 0 \/ n \notin g.rbs THEN g
  ELSE GLDetach([g EXCEPT !.rbs = @ \ {n}, !.store[n] = NoStore,
                          !.boundRb = IF @ = n THEN 0 ELSE @], n)

RECURSIVE GLDeleteRenderbuffers(_, _)
GLDeleteRenderbuffers(g, names) ==
  IF names = <<>> THEN g
  ELSE GLDeleteRenderbuffers(GLDeleteRenderbuffer(g, Head(names)), Tail(names))

\* ------------------------------------------------------------------- world
\* gl: the GL state of every context; cur: the current context, which every
\* GL call implicitly targets; calls: the backend calls issued so far.
Log(w, c) == [w EXCEPT !.calls = Append(@, c)]

\* A GL call that changes the state of the current context (none: no effect).
OnCur(w, g) == IF w.cur = NoCtx THEN w ELSE [w EXCEPT !.gl[w.cur] = g]
CurGL(w) == IF w.cur = NoCtx THEN InitGL ELSE w.gl[w.cur]

\* The calls of the gl module, on the world.  A call that returns a value
\* gives the new world (w) and the value (ret).
Generated(w, r, op) ==
  [w |-> Log(OnCur(w, r.g), Call(op, <<r.ret>>, "", 0, 0)), ret |-> r.ret]

gl_GenRenderbuffers(w, ok) ==
  Generated(w, GLGenRenderbuffer(CurGL(w), ok /\ w.cur # NoCtx), "GenRenderbuffers")

gl_BindRenderbuffer(w, n) ==
  Log(OnCur(w, GLBindRenderbuffer(CurGL(w), n)), Call("BindRenderbuffer", <<n>>, "", 0, 0))

gl_RenderbufferStorage(w, format, size, ok) ==
  Log(OnCur(w, GLRenderbufferStorage(CurGL(w), format, size[1], size[2], ok)),
      Call("RenderbufferStorage", <<>>, format, size[1], size[2]))

gl_GenFramebuffers(w, ok) ==
  Generated(w, GLGenFramebuffer(CurGL(w), ok /\ w.cur # NoCtx), "GenFramebuffers")

gl_BindFramebuffer(w, n) ==
  Log(OnCur(w, GLBindFramebuffer(CurGL(w), n)), Call("BindFramebuffer", <<n>>, "", 0, 0))

gl_IsFramebuffer(w, n, ok) ==
  [w |-> Log(w, Call("IsFramebuffer", <<n>>, "", 0, 0)),
   ret |-> ok /\ w.cur # NoCtx /\ GLIsFramebuffer(CurGL(w), n)]

gl_FramebufferRenderbuffer(w, point, n) ==
  Log(OnCur(w, GLFramebufferRenderbuffer(CurGL(w), point, n)),
      Call("FramebufferRenderbuffer", <<n>>, point, 0, 0))

gl_DeleteFramebuffers(w, n) ==
  Log(OnCur(w, GLDeleteFramebuffer(CurGL(w), n)), Call("DeleteFramebuffers", <<n>>, "", 0, 0))

gl_DeleteRenderbuffers(w, names) ==
  Log(OnCur(w, GLDeleteRenderbuffers(CurGL(w), names)),
      Call("DeleteRenderbuffers", names, "", 0, 0))

\* GetError reads the error flag and clears it.
gl_GetError(w) ==
  [w |-> Log(OnCur(w, [CurGL(w) EXCEPT !.err = FALSE]), Call("GetError", <<>>, "", 0, 0)),
   ret |-> CurGL(w).err]

\* --------------------------------------------------------------- DrawBuffer
\* The value DrawBuffer::new starts from: every handle zero.
ZeroBuffer(size) ==
  [size |-> size, framebuffer |-> 0, stencil_render_buffer |-> 0,
   depth_render_buffer |-> 0, color_render_buffer |-> 0]

BufferSet ==
  [size : Sizes, framebuffer : Handles, stencil_render_buffer : Handles,
   depth_render_buffer : Handles, color_render_buffer : Handles]

\* create_render_buffer after GenRenderbuffers: BindRenderbuffer and
\* RenderbufferStorage on the generated name r.ret, which is returned.
StoreGenerated(r, format, size, storeOk) ==
  [w |-> gl_RenderbufferStorage(gl_BindRenderbuffer(r.w, r.ret), format, size, storeOk),
   ret |-> r.ret]

\* create_render_buffer: GenRenderbuffers, BindRenderbuffer, RenderbufferStorage;
\* returns the generated name, 0 when the backend generated none.
create_render_buffer(w, format, size, genOk, storeOk) ==
  StoreGenerated(gl_GenRenderbuffers(w, genOk), format, size, storeOk)

\* One FramebufferRenderbuffer call, issued only for a non-zero handle.
AttachPoint(w, point, n) ==
  IF n # 0 THEN gl_FramebufferRenderbuffer(w, point, n) ELSE w

\* The three attachments, in the order color, depth, stencil.
AttachAll(w, b) ==
  AttachPoint(AttachPoint(AttachPoint(w, "COLOR_ATTACHMENT0", b.color_render_buffer),
                          "DEPTH_ATTACHMENT", b.depth_render_buffer),
              "STENCIL_ATTACHMENT", b.stencil_render_buffer)

\* The IsFramebuffer assertion with the answer of the backend ignored.
AssertIsFramebuffer_ignored(w, n, bad, dbg) ==
  IF dbg THEN [w |-> gl_IsFramebuffer(w, n, TRUE).w, ret |-> TRUE]
  ELSE [w |-> w, ret |-> TRUE]

\* debug_assert!(gl::IsFramebuffer(..) == gl::TRUE): the call is made in debug
\* builds only; ret tells whether execution goes on.
AssertIsFramebuffer(w, n, bad, dbg) ==
  IF dbg THEN gl_IsFramebuffer(w, n, "is_fb" \notin bad) ELSE [w |-> w, ret |-> TRUE]

\* attach_renderbuffers_to_framebuffer after the assertion a.
AttachAsserted(a, b) ==
  IF a.ret THEN [w |-> AttachAll(a.w, b), res |-> "Ok"]
  ELSE [w |-> a.w, res |-> "Panic"]

\* attach_renderbuffers_to_framebuffer that detaches a renderbuffer it finds
\* attached already, instead of attaching it again.
AttachPointToggle(w, point, n) ==
  IF n = 0 THEN w
  ELSE IF CurGL(w).boundFb # 0 /\ CurGL(w).att[CurGL(w).boundFb][point] = n
  THEN gl_FramebufferRenderbuffer(w, point, 0)
  ELSE gl_FramebufferRenderbuffer(w, point, n)

AttachAllToggle(w, b) ==
  AttachPointToggle(
    AttachPointToggle(AttachPointToggle(w, "COLOR_ATTACHMENT0", b.color_render_buffer),
                      "DEPTH_ATTACHMENT", b.depth_render_buffer),
    "STENCIL_ATTACHMENT", b.stencil_render_buffer)

AttachAssertedToggle(a, b) ==
  IF a.ret THEN [w |-> AttachAllToggle(a.w, b), res |-> "Ok"]
  ELSE [w |-> a.w, res |-> "Panic"]

attach_toggling(w, b, bad, dbg) ==
  AttachAssertedToggle(
    AssertIsFramebuffer(gl_BindFramebuffer(w, b.framebuffer), b.framebuffer, bad, dbg), b)

\* attach_renderbuffers_to_framebuffer that binds the framebuffer after the
\* attachment calls instead of before them.
AttachAssertedLast(a) ==
  [w |-> a.w, res |-> IF a.ret THEN "Ok" ELSE "Panic"]

attach_binding_last(w, b, bad, dbg) ==
  AttachAssertedLast(
    AssertIsFramebuffer(gl_BindFramebuffer(AttachAll(w, b), b.framebuffer),
                        b.framebuffer, bad, dbg))

\* attach_renderbuffers_to_framebuffer that binds the color renderbuffer
\* before it binds the framebuffer.
attach_binding_renderbuffer(w, b, bad, dbg) ==
  AttachAsserted(
    AssertIsFramebuffer(
      gl_BindFramebuffer(gl_BindRenderbuffer(w, b.color_render_buffer), b.framebuffer),
      b.framebuffer, bad, dbg), b)

\* attach_renderbuffers_to_framebuffer: binds the framebuffer, asserts (debug
\* builds) that the backend knows it, attaches each non-zero renderbuffer to
\* its point.  res is "Ok", or "Panic" when the debug assertion fails.
attach_renderbuffers_to_framebuffer(w, b, bad, dbg) ==
  AttachAsserted(
    AssertIsFramebuffer(gl_BindFramebuffer(w, b.framebuffer), b.framebuffer, bad, dbg), b)

\* self.<field> = create_render_buffer(..) (or the out parameter of
\* GenFramebuffers), r being the call that produced the handle: the world
\* after it, the instance with the handle stored, and what the
\* debug_assert!(self.<field> != 0) that follows tests (ok).
Stored(r, b, field) ==
  [w |-> r.w, b |-> [b EXCEPT ![field] = r.ret], ok |-> r.ret # 0]

\* A failing debug_assert! stops a debug build; it is absent from other builds.
Panicked(s) == [w |-> s.w, b |-> s.b, res |-> "Panic"]

\* What init returns: the result of the attachment, its last expression.
InitResult(a, b) == [w |-> a.w, b |-> b, res |-> a.res]

\* debug_assert!(self.framebuffer != 0), then the attachment.
InitFramebufferStored(s, bad, dbg) ==
  IF dbg /\ ~s.ok THEN Panicked(s)
  ELSE InitResult(attach_renderbuffers_to_framebuffer(s.w, s.b, bad, dbg), s.b)

\* The last step of init: GenFramebuffers, its debug assertion, the attachment.
InitFramebuffer(w, b, bad, dbg) ==
  InitFramebufferStored(Stored(gl_GenFramebuffers(w, "gen_fb" \notin bad), b, "framebuffer"),
                        bad, dbg)

\* debug_assert!(self.stencil_render_buffer != 0), then the framebuffer.
InitStencilStored(s, bad, dbg) ==
  IF dbg /\ ~s.ok THEN Panicked(s) ELSE InitFramebuffer(s.w, s.b, bad, dbg)

\* InitStencil with the depth attribute tested in place of the stencil one.
InitStencil_tests_depth(w, b, attrs, bad, dbg) ==
  IF attrs.depth
  THEN InitStencilStored(
         Stored(create_render_buffer(w, "STENCIL_INDEX8", b.size,
                                     "gen_stencil" \notin bad, "storage" \notin bad),
                b, "stencil_render_buffer"), bad, dbg)
  ELSE InitFramebuffer(w, b, bad, dbg)

\* init, continued: the stencil renderbuffer if requested, then the framebuffer.
InitStencil(w, b, attrs, bad, dbg) ==
  IF attrs.stencil
  THEN InitStencilStored(
         Stored(create_render_buffer(w, "STENCIL_INDEX8", b.size,
                                     "gen_stencil" \notin bad, "storage" \notin bad),
                b, "stencil_render_buffer"), bad, dbg)
  ELSE InitFramebuffer(w, b, bad, dbg)

\* debug_assert!(self.depth_render_buffer != 0), then the stencil step.
InitDepthStored(s, attrs, bad, dbg) ==
  IF dbg /\ ~s.ok THEN Panicked(s) ELSE InitStencil(s.w, s.b, attrs, bad, dbg)

\* init, continued: the depth renderbuffer if requested, then the rest.
InitDepth(w, b, attrs, bad, dbg) ==
  IF attrs.depth
  THEN InitDepthStored(
         Stored(create_render_buffer(w, "DEPTH_COMPONENT16", b.size,
                                     "gen_depth" \notin bad, "storage" \notin bad),
                b, "depth_render_buffer"), attrs, bad, dbg)
  ELSE InitStencil(w, b, attrs, bad, dbg)

\* debug_assert!(self.color_render_buffer != 0), then the depth step.
InitColorStored(s, attrs, bad, dbg) ==
  IF dbg /\ ~s.ok THEN Panicked(s) ELSE InitDepth(s.w, s.b, attrs, bad, dbg)

\* init that allocates multisample storage for the color renderbuffer when
\* antialias is requested (the switch to glRenderbufferStorageMultisample
\* that create_render_buffer leaves for later).
gl_RenderbufferStorageMultisample(w, format, size, ok) ==
  Log(OnCur(w, GLRenderbufferStorage(CurGL(w), format, size[1], size[2], ok)),
      Call("RenderbufferStorageMultisample", <<>>, format, size[1], size[2]))

StoreGeneratedMultisample(r, format, size, storeOk) ==
  [w |-> gl_RenderbufferStorageMultisample(gl_BindRenderbuffer(r.w, r.ret),
                                           format, size, storeOk),
   ret |-> r.ret]

init_multisampled(w, b, attrs, bad, dbg) ==
  InitColorStored(
    Stored(IF attrs.antialias
           THEN StoreGeneratedMultisample(gl_GenRenderbuffers(w, "gen_color" \notin bad),
                                          "RGBA4", b.size, "storage" \notin bad)
           ELSE create_render_buffer(w, "RGBA4", b.size,
                                     "gen_color" \notin bad, "storage" \notin bad),
           b, "color_render_buffer"), attrs, bad, dbg)

\* init that chooses the color format by the alpha attribute (RGB4 without
\* alpha), the selection the source leaves commented out.
init_format_by_alpha(w, b, attrs, bad, dbg) ==
  InitColorStored(
    Stored(create_render_buffer(w, IF attrs.alpha THEN "RGBA4" ELSE "RGB4", b.size,
                                "gen_color" \notin bad, "storage" \notin bad),
           b, "color_render_buffer"), attrs, bad, dbg)

\* DrawBufferHelpers::init: the color renderbuffer (always RGBA4), then depth
\* and stencil if requested, then the framebuffer and the attachment.
init(w, b, attrs, bad, dbg) ==
  InitColorStored(
    Stored(create_render_buffer(w, "RGBA4", b.size,
                                "gen_color" \notin bad, "storage" \notin bad),
           b, "color_render_buffer"), attrs, bad, dbg)

\* drop with the stencil handle written twice into the array, in place of
\* the depth handle.
drop_stencil_twice(w, b) ==
  gl_DeleteRenderbuffers(
    gl_DeleteFramebuffers(w, b.framebuffer),
    <<b.color_render_buffer, b.stencil_render_buffer, b.stencil_render_buffer>>)

\* drop that deletes the renderbuffers and forgets the framebuffer.
drop_keeps_framebuffer(w, b) ==
  gl_DeleteRenderbuffers(
    w, <<b.color_render_buffer, b.stencil_render_buffer, b.depth_render_buffer>>)

\* Drop for DrawBuffer: DeleteFramebuffers(1, [framebuffer]) and
\* DeleteRenderbuffers(3, [color, stencil, depth]) in the current context.
drop(w, b) ==
  gl_DeleteRenderbuffers(
    gl_DeleteFramebuffers(w, b.framebuffer),
    <<b.color_render_buffer, b.stencil_render_buffer, b.depth_render_buffer>>)

\* What new returns when it returns Ok(draw_buffer).
NewOk(w, b) == [w |-> w, res |-> "Ok", err |-> "", b |-> b]
\* A failed debug assertion: the panic unwinds through new, dropping draw_buffer.
NewPanic(w, b) == [w |-> drop(w, b), res |-> "Panic", err |-> "", b |-> b]
\* An early return with an error, dropping draw_buffer.
NewErr(w, b, err) == [w |-> drop(w, b), res |-> "Err", err |-> err, b |-> b]

\* debug_assert!(gl::GetError() == gl::NO_ERROR), e being what GetError gave.
NewAsserted(e, b) == IF e.ret THEN NewPanic(e.w, b) ELSE NewOk(e.w, b)

\* The end of DrawBuffer::new: the GetError assertion (debug builds), then
\* Ok(draw_buffer).
NewFinish(w, b, dbg) ==
  IF dbg THEN NewAsserted(gl_GetError(w), b) ELSE NewOk(w, b)

\* try!(draw_buffer.init(&attrs)) and what follows, i being what init gave.
NewInitialised(i, dbg) ==
  IF i.res = "Panic" THEN NewPanic(i.w, i.b) ELSE NewFinish(i.w, i.b, dbg)

\* try!(context.make_current()) and what follows, w being the world after
\* the call and mc what it returned.
NewCurrent(w, b, attrs, mc, bad, dbg) ==
  IF mc # "ok" THEN NewErr(w, b, mc)
  ELSE NewInitialised(init(w, b, attrs, bad, dbg), dbg)

\* context.borrow_attributes() and context.borrow_capabilities().
Borrow(w, c) ==
  Log(Log(w, Call("borrow_attributes", <<>>, c, 0, 0)),
      Call("borrow_capabilities", <<>>, c, 0, 0))

\* context.make_current(): on success the context becomes the current one,
\* on failure the current context stays what it was.
make_current(w, c, mc) ==
  IF mc = "ok"
  THEN [Log(w, Call("make_current", <<>>, c, 0, 0)) EXCEPT !.cur = c]
  ELSE Log(w, Call("make_current", <<>>, c, 0, 0))

\* new with the capability test inverted (max_samples != 0).
new_inverted_check(w, c, attrs, caps, size, mc, bad, dbg) ==
  IF attrs.antialias /\ caps.max_samples # 0
  THEN [w |-> Borrow(w, c), res |-> "Err", err |-> ErrAntialias, b |-> ZeroBuffer(size)]
  ELSE NewCurrent(make_current(Borrow(w, c), c, mc), ZeroBuffer(size), attrs, mc, bad, dbg)

\* new with the result of make_current ignored instead of propagated.
new_unchecked_make_current(w, c, attrs, caps, size, mc, bad, dbg) ==
  IF attrs.antialias /\ caps.max_samples = 0
  THEN [w |-> Borrow(w, c), res |-> "Err", err |-> ErrAntialias, b |-> ZeroBuffer(size)]
  ELSE NewInitialised(init(make_current(Borrow(w, c), c, mc), ZeroBuffer(size),
                           attrs, bad, dbg), dbg)

\* new with the capability test placed after make_current.
NewCurrentThenCheck(w, b, attrs, caps, mc, bad, dbg) ==
  IF mc # "ok" THEN NewErr(w, b, mc)
  ELSE IF attrs.antialias /\ caps.max_samples = 0 THEN NewErr(w, b, ErrAntialias)
  ELSE NewInitialised(init(w, b, attrs, bad, dbg), dbg)

new_late_check(w, c, attrs, caps, size, mc, bad, dbg) ==
  NewCurrentThenCheck(make_current(Borrow(w, c), c, mc), ZeroBuffer(size),
                      attrs, caps, mc, bad, dbg)

\* new that runs init before make_current, so that a failing make_current
\* drops an instance that holds handles.
NewInitialisedFirst(i, c, mc, dbg) ==
  IF i.res = "Panic" THEN NewPanic(i.w, i.b)
  ELSE IF mc # "ok" THEN NewErr(make_current(i.w, c, mc), i.b, mc)
  ELSE NewFinish(make_current(i.w, c, mc), i.b, dbg)

new_init_first(w, c, attrs, caps, size, mc, bad, dbg) ==
  IF attrs.antialias /\ caps.max_samples = 0
  THEN [w |-> Borrow(w, c), res |-> "Err", err |-> ErrAntialias, b |-> ZeroBuffer(size)]
  ELSE NewInitialisedFirst(init(Borrow(w, c), ZeroBuffer(size), attrs, bad, dbg), c, mc, dbg)

\* DrawBuffer::new(context, size).  c, attrs, caps: the context and what it
\* reports; mc: what its make_current returns; bad: where the backend fails.
\* res: "Ok" (b is the instance returned), "Err" (err is the error returned;
\* the zero-handle draw_buffer built before make_current is dropped on the
\* way out), "Panic" (a debug assertion failed; unwinding drops draw_buffer).
new(w, c, attrs, caps, size, mc, bad, dbg) ==
  IF attrs.antialias /\ caps.max_samples = 0
  THEN [w |-> Borrow(w, c), res |-> "Err", err |-> ErrAntialias, b |-> ZeroBuffer(size)]
  ELSE NewCurrent(make_current(Borrow(w, c), c, mc), ZeroBuffer(size), attrs, mc, bad, dbg)

\* ------------------------------------------------------------ state machine
VARIABLES
  debug,    \* the build has debug assertions (debug_assert! is compiled in)
  current,  \* the current context, NoCtx before the first make_current
  gl,       \* the GL state of each context
  bufs,     \* per call of new: "free" (not called yet), "failed" (no instance
            \* returned), "live" (the instance returned), "dropped"; the
            \* context it was built on (ctx) and the context that was current
            \* when it was dropped (dropped_in)
  last      \* the last operation: its inputs, its result, the calls it issued;
            \* for new, the objects live in its context before the call (live);
            \* for drop, whether it directly follows the new of its instance (fresh)

vars == <<debug, current, gl, bufs, last>>

BufIds == 1 .. MaxInstances
FreeSlot == [state |-> "free", ctx |-> NoCtx, dropped_in |-> NoCtx, b |-> ZeroBuffer(<<0, 0>>)]

NoOp ==
  [op |-> "none", ctx |-> NoCtx, id |-> 0, size |-> <<0, 0>>, mc |-> "", bad |-> {},
   attrs |-> [alpha |-> FALSE, depth |-> FALSE, stencil |-> FALSE, antialias |-> FALSE],
   caps |-> [max_samples |-> 0], cur |-> NoCtx,
   live |-> [rbs |-> {}, fbs |-> {}], fresh |-> FALSE,
   res |-> "", err |-> "", b |-> ZeroBuffer(<<0, 0>>), calls |-> <<>>]

World == [gl |-> gl, cur |-> current, calls |-> <<>>]

\* The live objects of a context: its renderbuffers and its framebuffers.
Live(g) == [rbs |-> g.rbs, fbs |-> g.fbs]

\* What an operation records of the state it starts from: the current context.
Before == [NoOp EXCEPT !.cur = current]
Called == Cardinality({i \in BufIds : bufs[i].state # "free"})
\* The slot of the next call of new.
FirstFree ==
  CHOOSE j \in BufIds :
    bufs[j].state = "free" /\ \A k \in BufIds : bufs[k].state = "free" => j <= k

Init ==
  /\ debug \in BOOLEAN
  /\ current = NoCtx
  /\ gl = [c \in Ctx |-> InitGL]
  /\ bufs = [i \in BufIds |-> FreeSlot]
  /\ last = NoOp

\* A caller calls DrawBuffer::new(context, size) and keeps the instance.  The
\* context is c, reporting the attributes at and the capabilities cp.
New(c, at, cp, size, mc, bad) ==
  /\ \E i \in {FirstFree}, r \in {new(World, c, at, cp, size, mc, bad, debug)} :
        /\ gl' = r.w.gl
        /\ current' = r.w.cur
        /\ bufs' = IF r.res = "Ok"
                   THEN [bufs EXCEPT ![i] = [state |-> "live", ctx |-> c,
                                                dropped_in |-> NoCtx, b |-> r.b]]
                   ELSE [bufs EXCEPT ![i].state = "failed"]
        /\ last' = [Before EXCEPT !.op = "new", !.ctx = c, !.id = i,
                    !.size = size, !.mc = mc, !.bad = bad, !.attrs = at,
                    !.caps = cp, !.res = r.res, !.live = Live(gl[c]),
                    !.err = r.err, !.b = r.b, !.calls = r.w.calls]
  /\ UNCHANGED debug

\* Drop that makes the context of the instance current before it deletes.
Drop_activating(i) ==
  /\ bufs[i].state = "live"
  /\ \E w \in {drop(make_current(World, bufs[i].ctx, "ok"), bufs[i].b)} :
        /\ gl' = w.gl
        /\ current' = w.cur
        /\ last' = [Before EXCEPT !.op = "drop", !.ctx = bufs[i].ctx, !.id = i,
                                !.fresh = (last.op = "new" /\ last.id = i),
                                !.size = bufs[i].b.size, !.res = "Ok",
                                !.b = bufs[i].b, !.calls = w.calls]
  /\ bufs' = [bufs EXCEPT ![i].state = "dropped", ![i].dropped_in = bufs[i].ctx]
  /\ UNCHANGED debug

\* The owner of instance i lets it go: Drop runs, in whichever context is current.
Drop(i) ==
  /\ bufs[i].state = "live"
  /\ \E w \in {drop(World, bufs[i].b)} :
        /\ gl' = w.gl
        /\ current' = w.cur
        /\ last' = [Before EXCEPT !.op = "drop", !.ctx = bufs[i].ctx, !.id = i,
                                !.fresh = (last.op = "new" /\ last.id = i),
                                !.size = bufs[i].b.size, !.res = "Ok",
                                !.b = bufs[i].b, !.calls = w.calls]
  /\ bufs' = [bufs EXCEPT ![i].state = "dropped", ![i].dropped_in = current]
  /\ UNCHANGED debug

\* attach_renderbuffers_to_framebuffer is called once more on instance i.
Reattach(i) ==
  /\ bufs[i].state = "live"
  /\ \E r \in {attach_renderbuffers_to_framebuffer(World, bufs[i].b, {}, debug)} :
        /\ gl' = r.w.gl
        /\ current' = r.w.cur
        /\ last' = [Before EXCEPT !.op = "attach", !.ctx = bufs[i].ctx, !.id = i,
                                !.size = bufs[i].b.size, !.res = r.res,
                                !.b = bufs[i].b, !.calls = r.w.calls]
  /\ UNCHANGED <<debug, bufs>>

\* A caller makes another context current.
MakeCurrent(c) ==
  /\ c # current
  /\ \E w \in {make_current(World, c, "ok")} :
        /\ current' = w.cur
        /\ last' = [Before EXCEPT !.op = "make_current", !.ctx = c, !.mc = "ok",
                                !.res = "Ok", !.calls = w.calls]
  /\ UNCHANGED <<debug, gl, bufs>>

\* The backend can fail only in a call that is issued: a depth or stencil
\* renderbuffer is generated only when requested, IsFramebuffer is called
\* only in a build with debug assertions.
FailChoices(at) ==
  {bad \in FailSets :
     /\ "gen_depth" \in bad => at.depth
     /\ "gen_stencil" \in bad => at.stencil
     /\ "is_fb" \in bad => debug}

\* Spec: every input of a construction is drawn.
Next ==
  \/ /\ Called < MaxCalls
     /\ \E mc \in McResults, c \in Ctx, at \in AttrSet, cp \in CapSet, size \in Sizes :
          \E bad \in FailChoices(at) : New(c, at, cp, size, mc, bad)
  \/ \E i \in BufIds : Drop(i)
  \/ \E i \in BufIds : Reattach(i)
  \/ \E c \in Ctx : MakeCurrent(c)

Spec == Init /\ [][Next]_vars

\* SpecPair: several instances on two contexts whose make_current succeeds
\* and which support what their attributes request.
PairCaps == [max_samples |-> 4]
PairAttrs == {at \in AttrSet : at.alpha /\ ~at.antialias}
PairSize == <<1, 2>>

NextPair ==
  \/ /\ Called < MaxBuffers
     /\ \E c \in Ctx, at \in PairAttrs :
          \E bad \in FailChoices(at) : New(c, at, PairCaps, PairSize, "ok", bad)
  \/ \E i \in BufIds : Drop(i)
  \/ \E i \in BufIds : Reattach(i)
  \/ \E c \in Ctx : MakeCurrent(c)

SpecPair == Init /\ [][NextPair]_vars

\* SpecRetry: several constructions on two contexts, each of which can fail
\* at the capability test or at make_current, so that a construction fails
\* while instances built before it are live; the backend performs every call.
RetryAttrs == {at \in AttrSet : at.alpha /\ ~at.stencil}

NextRetry ==
  \/ /\ Called < MaxBuffers
     /\ \E mc \in McResults, c \in Ctx, at \in RetryAttrs, cp \in CapSet :
          New(c, at, cp, PairSize, mc, {})
  \/ \E i \in BufIds : Drop(i)
  \/ \E i \in BufIds : Reattach(i)
  \/ \E c \in Ctx : MakeCurrent(c)

SpecRetry == Init /\ [][NextRetry]_vars

\* ------------------------------------------------------------------ claims
GLOps ==
  {"GenRenderbuffers", "BindRenderbuffer", "RenderbufferStorage", "GenFramebuffers",
   "BindFramebuffer", "IsFramebuffer", "FramebufferRenderbuffer", "GetError",
   "DeleteFramebuffers", "DeleteRenderbuffers"}
AllocOps == {"GenRenderbuffers", "RenderbufferStorage", "GenFramebuffers"}
Ops(calls) == {calls[k].op : k \in DOMAIN calls}
\* The indexes of the calls of the given operations.
At(calls, ops) == {k \in DOMAIN calls : calls[k].op \in ops}
Unsupported(l) == l.attrs.antialias /\ l.caps.max_samples = 0

\* C1: a construction on a context that requests antialias and reports
\* max_samples = 0 returns the unsupported-antialiasing error, and the step
\* has no side effect: no make_current, no GL call, the GL state of every
\* context and the current context are what they were.
C1_UnsupportedAntialiasing ==
  [][(last'.op = "new" /\ Unsupported(last'))
       => /\ last'.res = "Err"
          /\ last'.err = ErrAntialias
          /\ Ops(last'.calls) \cap ({"make_current"} \cup GLOps) = {}
          /\ gl' = gl
          /\ current' = current]_vars

C1_Witness ==
  /\ last.op = "new" /\ Unsupported(last)
  /\ last.res = "Err" /\ last.err = ErrAntialias

\* C2: when make_current is called and fails, the construction returns
\* exactly the error make_current returned and issues no allocation call
\* (GenRenderbuffers, RenderbufferStorage, GenFramebuffers).
C2_MakeCurrentFailure ==
  (last.op = "new" /\ "make_current" \in Ops(last.calls) /\ last.mc # "ok")
    => /\ last.res = "Err"
       /\ last.err = last.mc
       /\ Ops(last.calls) \cap AllocOps = {}

C2_Witness ==
  /\ last.op = "new" /\ "make_current" \in Ops(last.calls)
  /\ last.mc = "mc_lost" /\ last.res = "Err" /\ last.err = "mc_lost"

\* The handles of an instance that the claims speak of.
HandlesAsRequested(l) ==
  /\ l.b.color_render_buffer # 0
  /\ l.b.framebuffer # 0
  /\ (l.b.depth_render_buffer # 0) <=> l.attrs.depth
  /\ (l.b.stencil_render_buffer # 0) <=> l.attrs.stencil

C4_NoZeroMandatoryHandle ==
  last.op = "new"
    => /\ last.res = "Ok" => (last.b.color_render_buffer # 0 /\ last.b.framebuffer # 0)
       /\ (last.mc = "ok" /\ ~Unsupported(last)
             /\ last.bad \cap {"gen_color", "gen_fb"} # {}) => last.res # "Ok"

\* The attachments of the framebuffer an instance holds, in its context
\* (handle 0 names no framebuffer object: nothing is attached).
Attached(g, b) == IF b.framebuffer = 0 THEN NoAtt ELSE g.att[b.framebuffer]
AttachCalls(calls) ==
  {<<calls[k].arg, calls[k].names[1]>> : k \in At(calls, {"FramebufferRenderbuffer"})}

\* C5: after every successful construction the framebuffer of the instance
\* has the color renderbuffer at COLOR_ATTACHMENT0, the depth renderbuffer at
\* DEPTH_ATTACHMENT exactly when the depth handle is non-zero, the stencil
\* renderbuffer at STENCIL_ATTACHMENT exactly when the stencil handle is
\* non-zero; no attachment call carries a zero handle, and every attachment
\* call pairs a handle with its own point.
C5_CanonicalAttachments ==
  (last.op = "new" /\ last.res = "Ok")
    => LET b == last.b
           a == Attached(gl[last.ctx], b)
       IN /\ b.framebuffer # 0 /\ b.color_render_buffer # 0
          /\ a["COLOR_ATTACHMENT0"] = b.color_render_buffer
          /\ a["DEPTH_ATTACHMENT"] = b.depth_render_buffer
          /\ a["STENCIL_ATTACHMENT"] = b.stencil_render_buffer
          /\ AttachCalls(last.calls) \subseteq
               {<<"COLOR_ATTACHMENT0", b.color_render_buffer>>,
                <<"DEPTH_ATTACHMENT", b.depth_render_buffer>>,
                <<"STENCIL_ATTACHMENT", b.stencil_render_buffer>>}
          /\ \A pn \in AttachCalls(last.calls) : pn[2] # 0

\* The non-zero renderbuffer handles of an instance, and its framebuffer handle.
RbHandles(b) ==
  {b.color_render_buffer, b.depth_render_buffer, b.stencil_render_buffer} \ {0}
FbHandles(b) == {b.framebuffer} \ {0}
\* How many times handle h is passed to a call of operation op.
Passed(calls, op, h) ==
  Cardinality({<<k, j>> \in (DOMAIN calls) \X (1 .. 3) :
                 /\ calls[k].op = op
                 /\ j \in DOMAIN calls[k].names
                 /\ calls[k].names[j] = h})

\* C6: the teardown of an instance passes every non-zero handle of the
\* instance to a delete call of its kind exactly once; in the current
\* context exactly the objects those handles name stop being live (a zero
\* depth or stencil handle deletes nothing), and no other context changes.
C6_DropReleasesEachHandleOnce ==
  [][last'.op = "drop"
       => LET b == last'.b
          IN /\ \A h \in RbHandles(b) : Passed(last'.calls, "DeleteRenderbuffers", h) = 1
             /\ \A h \in FbHandles(b) : Passed(last'.calls, "DeleteFramebuffers", h) = 1
             /\ Ops(last'.calls) = {"DeleteRenderbuffers", "DeleteFramebuffers"}
             /\ current' = current
             /\ gl'[current].rbs = gl[current].rbs \ RbHandles(b)
             /\ gl'[current].fbs = gl[current].fbs \ FbHandles(b)
             /\ \A c \in Ctx \ {current} : gl'[c] = gl[c]]_vars

C6_Witness ==
  /\ last.op = "drop" /\ last.cur = last.ctx
  /\ last.b.framebuffer # 0 /\ last.b.color_render_buffer # 0
  /\ last.b.depth_render_buffer # 0 /\ last.b.stencil_render_buffer = 0
  /\ gl[last.ctx].rbs = {} /\ gl[last.ctx].fbs = {}
  /\ bufs[last.id].state = "dropped"

\* What the claims call the attachment state: per context, which handle is
\* bound to which attachment point of which framebuffer, and the bound
\* framebuffer.
AttachmentState(g) ==
  [c \in Ctx |-> [att |-> g[c].att, boundFb |-> g[c].boundFb]]

\* C7: a call of attach_renderbuffers_to_framebuffer that directly follows a
\* call of it on the same instance (the one init makes, or a later one)
\* returns Ok like the first and leaves the attachment state and the bound
\* framebuffer as the first call left them.
C7_AttachIdempotent ==
  [][(/\ last'.op = "attach"
      /\ last.op \in {"new", "attach"} /\ last.res = "Ok" /\ last.id = last'.id)
       => /\ last'.res = "Ok"
          /\ AttachmentState(gl') = AttachmentState(gl)]_vars

C7_Witness ==
  /\ last.op = "attach" /\ last.res = "Ok" /\ last.cur = last.ctx
  /\ last.b.depth_render_buffer # 0 /\ last.b.stencil_render_buffer # 0
  /\ gl[last.ctx].boundFb = last.b.framebuffer
  /\ Attached(gl[last.ctx], last.b)["DEPTH_ATTACHMENT"] = last.b.depth_render_buffer
  /\ Cardinality(At(last.calls, {"FramebufferRenderbuffer"})) = 3

\* C8: the first failing step decides: with antialiasing unsupported the
\* error is the unsupported-antialiasing one and make_current is not called,
\* whatever make_current would return; otherwise a failing make_current
\* decides and init is not entered; an instance is returned only when
\* neither step failed, and no instance is returned otherwise.
C8_FirstErrorWins ==
  last.op = "new"
    => /\ Unsupported(last)
            => (last.res = "Err" /\ last.err = ErrAntialias
                /\ "make_current" \notin Ops(last.calls))
       /\ (~Unsupported(last) /\ last.mc # "ok")
            => (last.res = "Err" /\ last.err = last.mc
                /\ Ops(last.calls) \cap GLOps
                     \subseteq {"DeleteFramebuffers", "DeleteRenderbuffers"})
       /\ last.res = "Ok" => (~Unsupported(last) /\ last.mc = "ok")
       /\ (bufs[last.id].state = "live") <=> (last.res = "Ok")

C8_Witness ==
  /\ last.op = "new" /\ Unsupported(last) /\ last.mc # "ok"
  /\ last.res = "Err" /\ last.err = ErrAntialias
  /\ bufs[last.id].state = "failed"

\* The formats of the RenderbufferStorage calls, in call order.
RECURSIVE StorageFormats(_)
StorageFormats(calls) ==
  IF calls = <<>> THEN <<>>
  ELSE (IF Head(calls).op = "RenderbufferStorage" THEN <<Head(calls).arg>> ELSE <<>>)
         \o StorageFormats(Tail(calls))

Precede(calls, opsA, opsB) ==
  \A i \in At(calls, opsA), j \in At(calls, opsB) : i < j

\* C9: in a successful construction the attributes and capabilities are read
\* first, then make_current is called, then the color renderbuffer is
\* allocated, then the depth one if requested, then the stencil one if
\* requested, then the framebuffer is generated, then bound, then the
\* attachment calls follow: no GL call precedes make_current and no
\* attachment call precedes the generation and binding of the framebuffer.
C9_CallOrder ==
  (last.op = "new" /\ last.res = "Ok")
    => LET cs == last.calls
       IN /\ Cardinality(At(cs, {"make_current"})) = 1
          /\ Cardinality(At(cs, {"GenFramebuffers"})) = 1
          /\ Cardinality(At(cs, {"BindFramebuffer"})) = 1
          /\ Precede(cs, {"borrow_attributes", "borrow_capabilities"}, {"make_current"})
          /\ Precede(cs, {"make_current"}, GLOps)
          /\ StorageFormats(cs) =
               <<"RGBA4">>
                 \o (IF last.attrs.depth THEN <<"DEPTH_COMPONENT16">> ELSE <<>>)
                 \o (IF last.attrs.stencil THEN <<"STENCIL_INDEX8">> ELSE <<>>)
          /\ Precede(cs, {"GenRenderbuffers", "BindRenderbuffer", "RenderbufferStorage"},
                    {"GenFramebuffers"})
          /\ Precede(cs, {"GenFramebuffers"}, {"BindFramebuffer"})
          /\ Precede(cs, {"BindFramebuffer"}, {"FramebufferRenderbuffer"})

C9_Witness ==
  /\ last.op = "new" /\ last.res = "Ok" /\ last.attrs.depth /\ last.attrs.stencil
  /\ Cardinality(At(last.calls, {"FramebufferRenderbuffer"})) = 3
  /\ Cardinality(At(last.calls, {"RenderbufferStorage"})) = 3

\* C10: dropping an instance right after its construction, while the context
\* it was built on is current, leaves the live renderbuffers and framebuffers
\* of that context equal to those before the construction: what the drop
\* deletes is exactly what the construction generated, and no other context
\* changes.
C10_CreateThenDropRestores ==
  [][(/\ last.op = "new" /\ last.res = "Ok"
      /\ last'.op = "drop" /\ last'.id = last.id
      /\ current = last.ctx)
       => /\ Live(gl'[last.ctx]) = last.live
          /\ gl[last.ctx].rbs \ gl'[last.ctx].rbs = RbHandles(last.b)
          /\ gl[last.ctx].fbs \ gl'[last.ctx].fbs = FbHandles(last.b)
          /\ RbHandles(last.b) \cap last.live.rbs = {}
          /\ FbHandles(last.b) \cap last.live.fbs = {}
          /\ \A c \in Ctx \ {last.ctx} : gl'[c] = gl[c]]_vars

\* An instance was built on a context that held the objects of another live
\* instance, then dropped at once with that context current: the objects of
\* the other instance are still there.
C10_Witness ==
  /\ last.op = "drop" /\ last.fresh /\ last.cur = last.ctx
  /\ last.b.depth_render_buffer # 0 /\ last.b.stencil_render_buffer # 0
  /\ \E j \in BufIds \ {last.id} :
       /\ bufs[j].state = "live" /\ bufs[j].ctx = last.ctx
       /\ gl[last.ctx].rbs = RbHandles(bufs[j].b)
       /\ gl[last.ctx].fbs = FbHandles(bufs[j].b)

\* Every drop so far ran while the context of its instance was current.
DroppedAtHome ==
  \A k \in BufIds : bufs[k].state = "dropped" => bufs[k].dropped_in = bufs[k].ctx
\* The objects instance j owns are live in the GL state g of its context.
OwnedLive(g, j) ==
  /\ RbHandles(bufs[j].b) \subseteq g[bufs[j].ctx].rbs
  /\ FbHandles(bufs[j].b) \subseteq g[bufs[j].ctx].fbs

\* C11: a drop deletes in whichever context is current and neither checks
\* nor activates the context the instance was built on.  Dropped while
\* another context is current, it deletes the objects of that context that
\* carry the handle values of the instance and leaves the context of the
\* instance as it was.  As long as every drop runs while the context of its
\* instance is current, the objects of every other live instance are live
\* before the drop and still live after it.
C11_DropInCurrentContext ==
  [][last'.op = "drop"
       => LET b == last'.b
              home == last'.ctx
          IN /\ current' = current
             /\ "make_current" \notin Ops(last'.calls)
             /\ current # home
                  => /\ gl'[home] = gl[home]
                     /\ gl'[current].rbs = gl[current].rbs \ RbHandles(b)
                     /\ gl'[current].fbs = gl[current].fbs \ FbHandles(b)
             /\ (current = home /\ DroppedAtHome)
                  => \A j \in BufIds \ {last'.id} :
                       bufs[j].state = "live" => (OwnedLive(gl, j) /\ OwnedLive(gl', j))]_vars

\* An instance built on one context was dropped while the other context was
\* current: its own objects are still live in its context, and a live
\* instance of the other context, which carries the same handle values, has
\* lost its objects.
C11_Witness ==
  /\ last.op = "drop" /\ last.cur # last.ctx /\ last.cur # NoCtx
  /\ last.b.framebuffer # 0 /\ last.b.color_render_buffer # 0
  /\ RbHandles(last.b) \subseteq gl[last.ctx].rbs
  /\ FbHandles(last.b) \subseteq gl[last.ctx].fbs
  /\ \E j \in BufIds \ {last.id} :
       /\ bufs[j].state = "live" /\ bufs[j].ctx = last.cur
       /\ RbHandles(bufs[j].b) = RbHandles(last.b)
       /\ FbHandles(bufs[j].b) = FbHandles(last.b)
       /\ gl[last.cur].rbs = {} /\ gl[last.cur].fbs = {}

\* The storage a construction gives the renderbuffer h: the format and the
\* size handed to DrawBuffer::new.
StoredAs(g, h, format, size) ==
  h # 0 => g.store[h] = [format |-> format, width |-> size[1], height |-> size[2]]
\* The construction recorded in l, run again from the state it started from
\* with the attributes at.
Again(l, at) == new(World, l.ctx, at, l.caps, l.size, l.mc, l.bad, debug)

\* C12: the storage calls of a construction are, in order, RGBA4 for the
\* color renderbuffer whatever the alpha attribute, DEPTH_COMPONENT16 for the
\* depth renderbuffer and STENCIL_INDEX8 for the stencil renderbuffer, each
\* with the width and height given to DrawBuffer::new; when the backend
\* performs the storage calls, the renderbuffers of the returned instance
\* have that storage; the same construction with the alpha attribute
\* inverted issues the same sequence of calls and returns the same result.
C12_FormatsAndSizes ==
  [][(last'.op = "new" /\ last'.res = "Ok")
       => LET l == last'
              cs == l.calls
              other == Again(l, [l.attrs EXCEPT !.alpha = ~@])
          IN /\ StorageFormats(cs) =
                  <<"RGBA4">>
                    \o (IF l.attrs.depth THEN <<"DEPTH_COMPONENT16">> ELSE <<>>)
                    \o (IF l.attrs.stencil THEN <<"STENCIL_INDEX8">> ELSE <<>>)
             /\ \A k \in At(cs, {"RenderbufferStorage"}) :
                  cs[k].w = l.size[1] /\ cs[k].h = l.size[2]
             /\ "storage" \notin l.bad
                  => /\ StoredAs(gl'[l.ctx], l.b.color_render_buffer, "RGBA4", l.size)
                     /\ StoredAs(gl'[l.ctx], l.b.depth_render_buffer,
                                 "DEPTH_COMPONENT16", l.size)
                     /\ StoredAs(gl'[l.ctx], l.b.stencil_render_buffer,
                                 "STENCIL_INDEX8", l.size)
             /\ other.w.calls = cs
             /\ other.res = l.res /\ other.b = l.b /\ other.w.gl = gl']_vars

\* A construction without alpha, with depth and stencil, of size 2 x 1: the
\* color renderbuffer is stored as RGBA4, 2 x 1.
C12_Witness ==
  /\ last.op = "new" /\ last.res = "Ok" /\ ~last.attrs.alpha
  /\ last.attrs.depth /\ last.attrs.stencil /\ last.size = <<2, 1>>
  /\ last.b.color_render_buffer # 0
  /\ gl[last.ctx].store[last.b.color_render_buffer]
       = [format |-> "RGBA4", width |-> 2, height |-> 1]
  /\ gl[last.ctx].store[last.b.depth_render_buffer].format = "DEPTH_COMPONENT16"
  /\ gl[last.ctx].store[last.b.stencil_render_buffer].format = "STENCIL_INDEX8"

\* The calls a construction can issue: the calls on the context and GLOps.
KnownOps == {"borrow_attributes", "borrow_capabilities", "make_current"} \cup GLOps

\* C13: a construction that requests antialias on a context with
\* max_samples > 0 issues the same sequence of calls, returns the same
\* result with the same handles and leaves the same GL state (attachments
\* included) as the same construction with antialias = false; no
\* construction issues a multisample storage call.
C13_AntialiasOnlyChecked ==
  [][last'.op = "new"
       => /\ Ops(last'.calls) \subseteq KnownOps
          /\ (last'.attrs.antialias /\ last'.caps.max_samples > 0)
               => LET l == last'
                      plain == Again(l, [l.attrs EXCEPT !.antialias = FALSE])
                  IN /\ plain.w.calls = l.calls
                     /\ plain.res = l.res /\ plain.err = l.err /\ plain.b = l.b
                     /\ plain.w.gl = gl' /\ plain.w.cur = current']_vars

\* A construction with antialias on a context with max_samples = 4 returned
\* an instance with a depth renderbuffer, attached.
C13_Witness ==
  /\ last.op = "new" /\ last.attrs.antialias /\ last.caps.max_samples = 4
  /\ last.res = "Ok" /\ last.attrs.depth /\ ~last.attrs.stencil
  /\ last.b.framebuffer # 0 /\ last.b.color_render_buffer # 0
  /\ Attached(gl[last.ctx], last.b)["DEPTH_ATTACHMENT"] = last.b.depth_render_buffer
  /\ last.b.depth_render_buffer # 0
  /\ Cardinality(At(last.calls, {"RenderbufferStorage"})) = 2

\* The framebuffer and the renderbuffers of b are objects of the context
\* whose GL state is g.
ObjectsOf(g, b) ==
  /\ b.framebuffer \in g.fbs
  /\ RbHandles(b) \subseteq g.rbs
\* No step changes a live instance: its size, its handles, its context.
InstancesKept ==
  \A i \in BufIds :
    bufs[i].state = "live" => (bufs'[i].b = bufs[i].b /\ bufs'[i].ctx = bufs[i].ctx)
\* What attach_renderbuffers_to_framebuffer on the instance b leaves alone in
\* every case: the instances, the current context, the GL state of the other
\* contexts, and in the current context the renderbuffers, their storage,
\* the bound renderbuffer and the attachments of every other framebuffer.
AttachFrame(b) ==
  /\ bufs' = bufs
  /\ current' = current
  /\ \A c \in Ctx \ {current} : gl'[c] = gl[c]
  /\ gl'[current].rbs = gl[current].rbs
  /\ gl'[current].store = gl[current].store
  /\ gl'[current].boundRb = gl[current].boundRb
  /\ \A n \in Names \ {b.framebuffer} : gl'[current].att[n] = gl[current].att[n]
  /\ gl'[current].fbs \ gl[current].fbs \subseteq {b.framebuffer}

\* C14, as stated: no step changes the size or a handle of a live instance,
\* and attach_renderbuffers_to_framebuffer changes nothing but the bound
\* framebuffer of the current context and the attachments of that
\* framebuffer.
C14_AttachChangesOnlyBinding ==
  [][/\ InstancesKept
     /\ last'.op = "attach"
          => /\ last'.b = bufs[last'.id].b
             /\ AttachFrame(last'.b)
             /\ gl'[current].fbs = gl[current].fbs
             /\ gl'[current].err = gl[current].err]_vars

\* C14, amended: no step changes the size or a handle of a live instance;
\* attach_renderbuffers_to_framebuffer changes neither the instance nor any
\* context but the current one, and there nothing but the bound framebuffer
\* and the attachments of the framebuffer of the instance when that
\* framebuffer and the renderbuffers of the instance are objects of the
\* current context; when they are not (another context is current, or the
\* objects were deleted), the call can in addition raise the GL error flag
\* and make the framebuffer name an object of the current context.
C14_AttachKeepsInstance ==
  [][/\ InstancesKept
     /\ last'.op = "attach"
          => /\ last'.b = bufs[last'.id].b
             /\ AttachFrame(last'.b)
             /\ ObjectsOf(gl[current], last'.b)
                  => /\ gl'[current].fbs = gl[current].fbs
                     /\ gl'[current].err = gl[current].err
                     /\ last'.res = "Ok"
                     /\ gl'[current].boundFb = last'.b.framebuffer]_vars

\* attach_renderbuffers_to_framebuffer ran on an instance while a later
\* instance of the same context is live: the bound framebuffer is now the
\* one of the first instance, and both instances are what they were.
C14_Witness ==
  /\ last.op = "attach" /\ last.res = "Ok" /\ last.cur = last.ctx
  /\ bufs[last.id].state = "live" /\ bufs[last.id].b = last.b
  /\ last.b.framebuffer # 0
  /\ gl[last.ctx].boundFb = last.b.framebuffer
  /\ \E j \in BufIds :
       /\ j > last.id /\ bufs[j].state = "live" /\ bufs[j].ctx = last.ctx
       /\ bufs[j].b.framebuffer \notin {0, last.b.framebuffer}
       /\ ObjectsOf(gl[last.ctx], bufs[j].b)

\* C15: in a build with debug assertions, a construction that gets past the
\* capability test and make_current ends in an assertion failure, and
\* returns no instance, when a Gen* call leaves a requested renderbuffer
\* handle or the framebuffer handle zero, when the backend does not
\* recognise the bound framebuffer, or when the GL error flag is set after
\* init; an instance it returns has every requested handle non-zero, a
\* framebuffer the backend knows, and a context without a pending GL error.
C15_DebugAssertionsStop ==
  (last.op = "new" /\ debug /\ ~Unsupported(last) /\ last.mc = "ok")
    => /\ last.bad # {} => (last.res = "Panic" /\ bufs[last.id].state = "failed")
       /\ last.res \in {"Ok", "Panic"}
       /\ last.res = "Ok"
            => /\ HandlesAsRequested(last)
               /\ GLIsFramebuffer(gl[last.ctx], last.b.framebuffer)
               /\ ~gl[last.ctx].err
               /\ {"IsFramebuffer", "GetError"} \subseteq Ops(last.calls)
               /\ bufs[last.id].state = "live"

\* A debug build whose backend did not recognise the bound framebuffer: the
\* construction stopped at the assertion, before any attachment call, and
\* returned no instance.
C15_Witness ==
  /\ last.op = "new" /\ debug /\ last.mc = "ok" /\ last.bad = {"is_fb"}
  /\ last.res = "Panic" /\ bufs[last.id].state = "failed"
  /\ "IsFramebuffer" \in Ops(last.calls)
  /\ "FramebufferRenderbuffer" \notin Ops(last.calls)

\* The GL calls of a log, in call order.
RECURSIVE GLCalls(_)
GLCalls(calls) ==
  IF calls = <<>> THEN <<>>
  ELSE (IF Head(calls).op \in GLOps THEN <<Head(calls)>> ELSE <<>>)
         \o GLCalls(Tail(calls))

\* C16: a construction that fails at make_current drops the instance it
\* built with every handle zero: the teardown runs in whichever context is
\* current (make_current made none current), its two delete calls are the
\* only GL calls of the construction and carry only zero handles, and the GL
\* state of every context is what it was.  A construction that fails at the
\* capability test issues no GL call at all.  In both cases the current
\* context stays what it was.
C16_FailedConstructionDeletesNothing ==
  [][(last'.op = "new" /\ last'.res = "Err")
       => /\ gl' = gl
          /\ current' = current
          /\ Unsupported(last') => GLCalls(last'.calls) = <<>>
          /\ ~Unsupported(last')
               => /\ last'.mc # "ok" /\ last'.err = last'.mc
                  /\ last'.b = ZeroBuffer(last'.size)
                  /\ GLCalls(last'.calls) =
                       <<Call("DeleteFramebuffers", <<0>>, "", 0, 0),
                         Call("DeleteRenderbuffers", <<0, 0, 0>>, "", 0, 0)>>
                  /\ Precede(last'.calls, {"make_current"}, GLOps)]_vars

\* A construction on one context failed at make_current while the other
\* context was current and held the objects of a live instance: the teardown
\* ran there and those objects are still live.
C16_Witness ==
  /\ last.op = "new" /\ last.res = "Err" /\ last.mc # "ok" /\ last.err = last.mc
  /\ "DeleteRenderbuffers" \in Ops(last.calls)
  /\ last.cur # NoCtx /\ last.cur # last.ctx /\ current = last.cur
  /\ \E j \in BufIds \ {last.id} :
       /\ bufs[j].state = "live" /\ bufs[j].ctx = current
       /\ bufs[j].b.depth_render_buffer # 0
       /\ ObjectsOf(gl[current], bufs[j].b)

====
